---- MODULE Spec2Model ----
(***************************************************************************)
(* GeneticReverb: the ConvolutionProcessor (session controller) with its   *)
(* three threads -- the control thread (prepare / release / startGenerate  *)
(* / cancelIR / setTargetParams), the background worker spawned by         *)
(* startGenerate (GeneticAlgorithm::compute followed by setIR) and the     *)
(* audio thread (process).  Every atomic load/store, every acquisition of  *)
(* m_convolverMutex and every thread join is a step of its own, so that    *)
(* TLC explores the interleavings of the three threads.                    *)
(***************************************************************************)
EXTENDS Integers, Sequences, FiniteSets, TLC

\* ---------------------------------------------------------------- bounds
\* numGenerations of the worker lambda (250 in the source), scaled down.
NumGenerations == 3
\* Largest numSamples handed to process().
MaxSamples == 2
\* Largest populationSize an optimizer is constructed with.
MaxPopSize == 10
\* Fitness values are the levels 0 .. MaxFitness (0: below the convergence
\* threshold 0.001); Unevaluated stands for the initial fitness 1e10.
MaxFitness == 2
\* Longest decay curve handed to calculateT60 / calculateEDT.
MaxCurveLen == 4

\* ------------------------------------------------------------- constants
DefaultBlockSize == 1024
DefaultT60 == 400
\* populationSize of the optimizer the controller constructs.
DefaultPopSize == 50
\* sampleRate of that optimizer; the shortest impulse response.
SampleRate == 44100
MinIRLength == 1024

\* Block sizes prepare() is called with; target T60 values (milliseconds)
\* setTargetParams() is called with.
BlockSizes == {DefaultBlockSize, 512}
Targets == {DefaultT60, 1000}

\* Sample values: 0 is silence, Dirty is whatever the host left in a buffer.
Dirty == -1
\* EmptyIR is the empty vector compute() returns on failure.  The impulse
\* response a run computes is random noise, hence different from the ones
\* computed before: it gets a name no convolver holds.
EmptyIR == 0
IRNames == {1, 2}

\* populationSize values an optimizer is constructed with.
PopSizes == -1 .. MaxPopSize
FitnessLevels == 0 .. MaxFitness
Unevaluated == MaxFitness + 1
\* The impulse responses of a population, named by how far their T60 and
\* C80 are from the target: response k evaluates to fitness level k - 1.
Genomes == 1 .. (MaxFitness + 1)

VARIABLES
    \* --- ConvolutionProcessor members
    m_isIRReady,      \* std::atomic<bool>
    m_convolverL,     \* fftconvolver::FFTConvolver (left)
    m_convolverR,     \* fftconvolver::FFTConvolver (right)
    m_maxBlockSize,
    m_params,         \* ReverbTargetParams (t60 only; not atomic)
    m_isGenerating,   \* std::atomic<bool>
    m_progress,       \* std::atomic<float>, as numerator over NumGenerations
    mutexWriter,      \* m_convolverMutex: exclusive owner, "none" if free
    mutexReaders,     \* m_convolverMutex: number of shared owners
    \* --- GeneticAlgorithm members
    m_cancel,         \* std::atomic<bool>
    m_onProgress,     \* TRUE iff a progress callback is registered
    \* --- control thread
    ctl,              \* position of the control thread
    \* --- worker thread (m_gaThread)
    worker,           \* position; "none" = m_gaThread not joinable
    gen,              \* loop variable of compute
    evals,            \* generations evaluated by the current compute call
    bestIR,           \* local bestIR of the worker lambda
    okL, okR,         \* locals of setIR
    targetSeen,       \* targetParams as calculatePopulationFitness just read it
    outcome,          \* how the last compute() ended, "none" while it has not
    \* --- audio thread
    audio,            \* position of the audio thread inside process()
    numSamples,
    outBufferL, outBufferR,
    \* --- GeneticAlgorithm driven on its own (compute() called directly)
    opt,              \* position inside constructor / compute()
    m_popSize,
    m_population,     \* sequence of Individual: [ir, len, fitness]
    optGen,           \* loop variable of compute
    optEvals,         \* calculatePopulationFitness passes made
    reports,          \* what the progress callback received: [cur, best]
    optResult,        \* the vector compute() returned
    eliteCount,       \* local of createNextGeneration(), 0 before its call
    parents,          \* the indices distElite handed out in that call
    optOutcome,       \* the exit compute() took, "none" while it runs
    optBest,          \* m_population[0] after the last std::sort
    \* --- GeneticReverbState (the plug-in) and its last setter call
    dry, wet, volume,
    params,           \* ReverbTargetParams: [t60, c80]
    sentParams,       \* argument of the last processor->setTargetParams
    plugIndex, plugValue,
    result,           \* FMOD_RESULT of the last call
    \* --- AnalysisHelpers
    edc_dB,           \* the decay curve calculateSchroederDecay returned
    called,           \* the helper called last
    returned,         \* what calculateT60 / calculateEDT returned
    \* --- one crossover() followed by one mutate()
    parent1, parent2, \* the two parents' impulse responses
    child,            \* the child: [ir, fitness]
    picked,           \* per sample, the parent crossover read it from
    xo,               \* "none" | "parents" | "crossed" | "mutated"
    \* --- one initializePopulation()
    initT60,          \* its argument targetT60, in units of 1/1024 ms
    m_sampleRate,     \* the optimizer's sample rate, in Hz
    irLength,         \* the length it gave every individual
    envelopeT60,      \* the T60 its decay envelope divided by
    \* --- one std::sort of a population
    sortIn, sortOut,  \* the population before and after; << >> before
    \* --- history
    runTarget,        \* m_params when startGenerate() spawned the run
    cancelReq,        \* the cancel() request a joining control call made
    preSetIR          \* convolution state when setIR took the lock

vars == <<m_isIRReady, m_convolverL, m_convolverR, m_maxBlockSize, m_params,
          m_isGenerating, m_progress, mutexWriter, mutexReaders, m_cancel,
          m_onProgress, ctl, worker, gen, evals, bestIR, okL, okR, targetSeen,
          outcome, audio, numSamples, outBufferL, outBufferR, runTarget,
          cancelReq, preSetIR, opt, m_popSize, m_population, optGen,
          optEvals, reports, optResult, eliteCount, parents, optOutcome,
          optBest, dry, wet, volume, params, sentParams, plugIndex,
          plugValue, result, edc_dB, called, returned, parent1, parent2,
          child, picked, xo, initT60, m_sampleRate, irLength, envelopeT60,
          sortIn, sortOut>>

convVars == <<m_isIRReady, m_convolverL, m_convolverR>>
mutexVars == <<mutexWriter, mutexReaders>>
gaVars == <<m_cancel, m_onProgress>>
workerVars == <<worker, gen, evals, bestIR, okL, okR, targetSeen, outcome>>
audioVars == <<audio, numSamples, outBufferL, outBufferR>>
histVars == <<runTarget, cancelReq, preSetIR>>
optVars == <<opt, m_popSize, m_population, optGen, optEvals, reports,
             optResult, eliteCount, parents, optOutcome, optBest>>
plugVars == <<dry, wet, volume, params, sentParams, plugIndex, plugValue,
              result>>
analysisVars == <<edc_dB, called, returned>>
xoVars == <<parent1, parent2, child, picked, xo>>
initVars == <<initT60, m_sampleRate, irLength, envelopeT60>>
sortVars == <<sortIn, sortOut>>
pureVars == <<xoVars, initVars, sortVars>>
aloneVars == <<optVars, plugVars, analysisVars, pureVars>>

\* ------------------------------------------------------- convolution engine
\* FFTConvolver is consumed through init / process / reset only: reset()
\* empties the engine, init() returns whether it succeeded and leaves a
\* failed engine without impulse response.
ConvReset == [st |-> "reset", ir |-> EmptyIR, bs |-> 0]
ConvFailed == [st |-> "failed", ir |-> EmptyIR, bs |-> 0]
ConvLoaded(ir, bs) == [st |-> "ok", ir |-> ir, bs |-> bs]

\* init(blockSize, ir, length) with result ok.
ConvInit(bs, ir, ok) == IF ok THEN ConvLoaded(ir, bs) ELSE ConvFailed

\* process(in, out, n): n output samples; an engine holding IR k scales the
\* unit input by k, an engine holding no IR produces silence.
ConvProcess(conv, out, n) ==
    [i \in 1..Len(out) |-> IF i <= n THEN conv.ir ELSE out[i]]

DirtyBuffer == [i \in 1..MaxSamples |-> Dirty]
NoSnapshot == [L |-> ConvReset, R |-> ConvReset, ready |-> FALSE, set |-> FALSE]
Snapshot == [L |-> m_convolverL, R |-> m_convolverR, ready |-> m_isIRReady,
             set |-> TRUE]
NoCancel == [at |-> "none", evals |-> 0, conv |-> NoSnapshot]

\* ---------------------------------------------------------------- Init
\* The controller after its constructor.
InitController ==
    /\ m_isIRReady = FALSE
    /\ m_convolverL = ConvReset
    /\ m_convolverR = ConvReset
    /\ m_maxBlockSize = DefaultBlockSize
    /\ m_params = DefaultT60
    /\ m_isGenerating = FALSE
    /\ m_progress = 0
    /\ mutexWriter = "none"
    /\ mutexReaders = 0
    /\ m_cancel = FALSE
    /\ m_onProgress = FALSE
    /\ ctl = "idle"
    /\ worker = "none"
    /\ gen = 0
    /\ evals = 0
    /\ bestIR = EmptyIR
    /\ okL = FALSE
    /\ okR = FALSE
    /\ targetSeen = 0
    /\ outcome = "none"
    /\ audio = "idle"
    /\ numSamples = 0
    /\ outBufferL = DirtyBuffer
    /\ outBufferR = DirtyBuffer
    /\ runTarget = 0
    /\ cancelReq = NoCancel
    /\ preSetIR = NoSnapshot

\* The optimizer inside the controller: 50 individuals, driven by the worker
\* only; its population is not followed individual by individual.
InitEmbeddedOptimizer ==
    /\ opt = "embedded"
    /\ m_popSize = DefaultPopSize
    /\ m_population = << >>
    /\ optGen = 0
    /\ optEvals = 0
    /\ reports = << >>
    /\ optResult = EmptyIR
    /\ eliteCount = 0
    /\ parents = {}
    /\ optOutcome = "none"
    /\ optBest = [ir |-> EmptyIR, len |-> 0, fitness |-> Unevaluated]

\* The plug-in after GeneticReverb_Create: the defaults of
\* GeneticReverbState, and the target handed to the controller.
InitPlugin ==
    /\ dry = 500
    /\ wet = 500
    /\ volume = 1000
    /\ params = [t60 |-> DefaultT60, c80 |-> 12000]
    /\ sentParams = params
    /\ plugIndex = "none"
    /\ plugValue = 0
    /\ result = "FMOD_OK"

\* No helper called yet.
InitAnalysis ==
    /\ edc_dB = << >>
    /\ called = "none"
    /\ returned = 0

\* No crossover, no initializePopulation and no sort made yet.
InitCrossover ==
    /\ parent1 = << >>
    /\ parent2 = << >>
    /\ child = [ir |-> << >>, fitness |-> Unevaluated]
    /\ picked = << >>
    /\ xo = "none"

InitInitialize ==
    /\ initT60 = 0
    /\ m_sampleRate = SampleRate
    /\ irLength = 0
    /\ envelopeT60 = 0

InitSort ==
    /\ sortIn = << >>
    /\ sortOut = << >>

InitPure == InitCrossover /\ InitInitialize /\ InitSort

Init ==
    /\ InitController /\ InitEmbeddedOptimizer /\ InitPlugin /\ InitAnalysis
    /\ InitPure

\* ------------------------------------------------------------- helpers
\* Variant of JoinReturns: a join() that does not wait.
JoinReturnsAtOnce == TRUE

\* A join that returns as soon as cancellation has been requested.
JoinReturnsOnceCancelled == worker \in {"none", "exited"} \/ m_cancel

\* m_gaThread.joinable(), and the condition under which join() returns.
Joinable == worker # "none"

JoinReturns == worker \in {"none", "exited"}

\* Where the worker stands relative to its compute() call.
WorkerPhase ==
    CASE worker = "start" -> "early"
      [] worker \in {"begin", "eval", "check", "next", "final"} -> "mid"
      [] worker \in {"none", "exited"} -> "none"
      [] OTHER -> "late"

\* GeneticAlgorithm::cancel() as called by prepare / release / cancelIR
\* when m_isGenerating is set.
CancelIfGenerating ==
    IF m_isGenerating
    THEN /\ m_cancel' = TRUE
         /\ cancelReq' = [at |-> WorkerPhase, evals |-> evals, conv |-> Snapshot]
    ELSE UNCHANGED <<m_cancel, cancelReq>>

\* join(), then the stores every joining call makes afterwards.
JoinWorker ==
    /\ JoinReturns
    /\ worker' = "none"
    /\ m_isGenerating' = FALSE
    /\ m_progress' = 0
    /\ cancelReq' = NoCancel
    /\ outcome' = "none"
    /\ UNCHANGED <<gen, evals, bestIR, okL, okR, targetSeen>>

LockExclusive(who) ==
    /\ mutexWriter = "none"
    /\ mutexReaders = 0
    /\ mutexWriter' = who
    /\ UNCHANGED mutexReaders

\* An unlock that leaves the mutex held.
UnlockExclusiveKept(who) ==
    /\ mutexWriter = who
    /\ UNCHANGED mutexVars

UnlockExclusive(who) ==
    /\ mutexWriter = who
    /\ mutexWriter' = "none"
    /\ UNCHANGED mutexReaders

\* ------------------------------------------------------ control thread
\* prepare(sampleRate, maxBlockSize)
Prepare ==
    /\ ctl = "idle"
    /\ CancelIfGenerating
    /\ ctl' = "prepare_join"
    /\ UNCHANGED <<convVars, m_maxBlockSize, m_params, m_isGenerating,
                   m_progress, mutexVars, m_onProgress, workerVars, audioVars,
                   runTarget, preSetIR>>
    /\ UNCHANGED aloneVars

PrepareJoin ==
    /\ ctl = "prepare_join"
    /\ JoinWorker
    /\ \E bs \in BlockSizes : m_maxBlockSize' = bs
    \* m_geneticAlgorithm.emplace(...): a fresh optimizer
    /\ m_cancel' = FALSE
    /\ m_onProgress' = FALSE
    /\ ctl' = "prepare_lock"
    /\ UNCHANGED <<convVars, m_params, mutexVars, audioVars, runTarget,
                   preSetIR>>
    /\ UNCHANGED aloneVars

PrepareLock ==
    /\ ctl = "prepare_lock"
    /\ LockExclusive("ctl")
    /\ ctl' = "prepare_reset"
    /\ UNCHANGED <<convVars, m_maxBlockSize, m_params, m_isGenerating,
                   m_progress, gaVars, workerVars, audioVars, histVars>>
    /\ UNCHANGED aloneVars

\* Variant of ReadyAfterReset: the flag is left as it is.
ReadyAfterResetKept == m_isIRReady

\* prepare() / release(): m_isIRReady.store(false)
ReadyAfterReset == FALSE

PrepareReset ==
    /\ ctl = "prepare_reset"
    /\ m_convolverL' = ConvReset
    /\ m_convolverR' = ConvReset
    /\ m_isIRReady' = ReadyAfterReset
    /\ ctl' = "prepare_unlock"
    /\ UNCHANGED <<m_maxBlockSize, m_params, m_isGenerating, m_progress,
                   mutexVars, gaVars, workerVars, audioVars, histVars>>
    /\ UNCHANGED aloneVars

PrepareUnlock ==
    /\ ctl = "prepare_unlock"
    /\ UnlockExclusive("ctl")
    /\ ctl' = "idle"
    /\ UNCHANGED <<convVars, m_maxBlockSize, m_params, m_isGenerating,
                   m_progress, gaVars, workerVars, audioVars, histVars>>
    /\ UNCHANGED aloneVars

\* release()
Release ==
    /\ ctl = "idle"
    /\ CancelIfGenerating
    /\ ctl' = "release_join"
    /\ UNCHANGED <<convVars, m_maxBlockSize, m_params, m_isGenerating,
                   m_progress, mutexVars, m_onProgress, workerVars, audioVars,
                   runTarget, preSetIR>>
    /\ UNCHANGED aloneVars

ReleaseJoin ==
    /\ ctl = "release_join"
    /\ JoinWorker
    /\ ctl' = "release_lock"
    /\ UNCHANGED <<convVars, m_maxBlockSize, m_params, mutexVars, gaVars,
                   audioVars, runTarget, preSetIR>>
    /\ UNCHANGED aloneVars

ReleaseLock ==
    /\ ctl = "release_lock"
    /\ LockExclusive("ctl")
    /\ ctl' = "release_reset"
    /\ UNCHANGED <<convVars, m_maxBlockSize, m_params, m_isGenerating,
                   m_progress, gaVars, workerVars, audioVars, histVars>>
    /\ UNCHANGED aloneVars

ReleaseReset ==
    /\ ctl = "release_reset"
    /\ m_convolverL' = ConvReset
    /\ m_convolverR' = ConvReset
    /\ m_isIRReady' = ReadyAfterReset
    /\ ctl' = "release_unlock"
    /\ UNCHANGED <<m_maxBlockSize, m_params, m_isGenerating, m_progress,
                   mutexVars, gaVars, workerVars, audioVars, histVars>>
    /\ UNCHANGED aloneVars

ReleaseUnlock ==
    /\ ctl = "release_unlock"
    /\ UnlockExclusive("ctl")
    /\ ctl' = "idle"
    /\ UNCHANGED <<convVars, m_maxBlockSize, m_params, m_isGenerating,
                   m_progress, gaVars, workerVars, audioVars, histVars>>
    /\ UNCHANGED aloneVars

\* setTargetParams(params)
SetTargetParams ==
    /\ ctl = "idle"
    /\ \E t \in Targets : m_params' = t
    /\ UNCHANGED <<convVars, m_maxBlockSize, m_isGenerating, m_progress,
                   mutexVars, gaVars, ctl, workerVars, audioVars, histVars>>
    /\ UNCHANGED aloneVars

\* Variant of StartProceeds without the m_isGenerating test.
StartProceedsAlways(generating) == TRUE

\* startGenerate(): if (m_isGenerating.load()) return;
StartProceeds(generating) == ~generating

\* startGenerate(): the m_isGenerating test
StartGenerate ==
    /\ ctl = "idle"
    /\ ctl' = IF StartProceeds(m_isGenerating) THEN "start_join"
              ELSE "start_return"
    /\ UNCHANGED <<convVars, m_maxBlockSize, m_params, m_isGenerating,
                   m_progress, mutexVars, gaVars, workerVars, audioVars,
                   histVars>>
    /\ UNCHANGED aloneVars

\* startGenerate(): the return taken while a run is in flight
StartReturn ==
    /\ ctl = "start_return"
    /\ ctl' = "idle"
    /\ UNCHANGED <<convVars, m_maxBlockSize, m_params, m_isGenerating,
                   m_progress, mutexVars, gaVars, workerVars, audioVars,
                   histVars>>
    /\ UNCHANGED aloneVars

\* A spawn that leaves the flag clear.
GeneratingAtSpawnUnset == FALSE

\* startGenerate(): m_isGenerating.store(true), before the thread is made.
GeneratingAtSpawn == TRUE

\* startGenerate(): join of the previous worker, the two stores, the spawn
StartSpawn ==
    /\ ctl = "start_join"
    /\ JoinReturns
    /\ m_isGenerating' = GeneratingAtSpawn
    /\ m_progress' = 0
    /\ worker' = "start"
    /\ runTarget' = m_params
    /\ cancelReq' = NoCancel
    /\ ctl' = "idle"
    /\ UNCHANGED <<convVars, m_maxBlockSize, m_params, mutexVars, gaVars,
                   gen, evals, bestIR, okL, okR, targetSeen, outcome,
                   audioVars, preSetIR>>
    /\ UNCHANGED aloneVars

\* cancelIR(): the m_isGenerating test and cancel()
CancelIR ==
    /\ ctl = "idle"
    /\ CancelIfGenerating
    /\ ctl' = IF m_isGenerating THEN "cancel_join" ELSE "cancel_return"
    /\ UNCHANGED <<convVars, m_maxBlockSize, m_params, m_isGenerating,
                   m_progress, mutexVars, m_onProgress, workerVars, audioVars,
                   runTarget, preSetIR>>
    /\ UNCHANGED aloneVars

\* cancelIR(): the return taken when no run is in progress
CancelReturn ==
    /\ ctl = "cancel_return"
    /\ ctl' = "idle"
    /\ UNCHANGED <<convVars, m_maxBlockSize, m_params, m_isGenerating,
                   m_progress, mutexVars, gaVars, workerVars, audioVars,
                   histVars>>
    /\ UNCHANGED aloneVars

\* cancelIR(): join and the two stores
CancelJoin ==
    /\ ctl = "cancel_join"
    /\ JoinWorker
    /\ ctl' = "idle"
    /\ UNCHANGED <<convVars, m_maxBlockSize, m_params, mutexVars, gaVars,
                   audioVars, runTarget, preSetIR>>
    /\ UNCHANGED aloneVars

\* ------------------------------------------------------- worker thread
\* Variant of ReportProgress that stores the generation after cur.
ReportProgressAhead(cur) == IF m_onProgress THEN cur + 1 ELSE m_progress

\* The progress callback: p = cur / total, stored in m_progress.
ReportProgress(cur) == IF m_onProgress THEN cur ELSE m_progress

\* A resetCancel() that leaves the flag as it is.
CancelAfterResetKept(flag) == flag

\* resetCancel(): m_cancel.store(false)
CancelAfterReset(flag) == FALSE

\* Worker lambda up to the compute() call: ga->resetCancel() and
\* ga->setProgressCallback(...).
WStart ==
    /\ worker = "start"
    /\ m_cancel' = CancelAfterReset(m_cancel)
    /\ m_onProgress' = TRUE
    /\ worker' = "begin"
    /\ UNCHANGED <<convVars, m_maxBlockSize, m_params, m_isGenerating,
                   m_progress, mutexVars, ctl, gen, evals, bestIR, okL, okR,
                   targetSeen, outcome, audioVars, histVars>>
    /\ UNCHANGED aloneVars

\* compute(): population-size test (m_popSize is 50), the report (0, total)
\* and initializePopulation().
WComputeBegin ==
    /\ worker = "begin"
    /\ m_progress' = ReportProgress(0)
    /\ gen' = 0
    /\ evals' = 0
    /\ bestIR' = EmptyIR
    /\ targetSeen' = 0
    /\ outcome' = "none"
    /\ worker' = "eval"
    /\ UNCHANGED <<convVars, m_maxBlockSize, m_params, m_isGenerating,
                   mutexVars, gaVars, ctl, okL, okR, audioVars, histVars>>
    /\ UNCHANGED aloneVars

\* The target calculatePopulationFitness dereferences: compute() was handed
\* a reference to m_params.
TargetRead == m_params

\* compute(): calculatePopulationFitness, std::sort and the report
\* (gen + 1, total) of one generation.
WEval ==
    /\ worker = "eval"
    /\ targetSeen' = TargetRead
    /\ evals' = evals + 1
    /\ m_progress' = ReportProgress(gen + 1)
    /\ worker' = "check"
    /\ UNCHANGED <<convVars, m_maxBlockSize, m_params, m_isGenerating,
                   mutexVars, gaVars, ctl, gen, bestIR, okL, okR, outcome,
                   audioVars, histVars>>
    /\ UNCHANGED aloneVars

\* Variant of LoopBreaks without the m_cancel test.
LoopBreaksIgnoringCancel(converged, cancelled) == converged

\* compute(): the two break tests that end an iteration.
LoopBreaks(converged, cancelled) == converged \/ cancelled

\* compute(): fitness < 0.001 or m_cancel set -> break, else go on.
WCheck ==
    /\ worker = "check"
    /\ \E converged \in BOOLEAN :
         /\ worker' = IF LoopBreaks(converged, m_cancel) THEN "final" ELSE "next"
         /\ outcome' = IF converged THEN "converged"
                        ELSE IF LoopBreaks(converged, m_cancel) THEN "cancelled"
                        ELSE outcome
    /\ targetSeen' = 0
    /\ UNCHANGED <<convVars, m_maxBlockSize, m_params, m_isGenerating,
                   m_progress, mutexVars, gaVars, ctl, gen, evals, bestIR,
                   okL, okR, audioVars, histVars>>
    /\ UNCHANGED aloneVars

\* compute(): createNextGeneration(), ++gen and the loop test.
WNextGeneration ==
    /\ worker = "next"
    /\ gen' = gen + 1
    /\ worker' = IF gen + 1 < NumGenerations THEN "eval" ELSE "final"
    /\ outcome' = IF gen + 1 < NumGenerations THEN outcome ELSE "exhausted"
    /\ UNCHANGED <<convVars, m_maxBlockSize, m_params, m_isGenerating,
                   m_progress, mutexVars, gaVars, ctl, evals, bestIR, okL,
                   okR, targetSeen, audioVars, histVars>>
    /\ UNCHANGED aloneVars

\* The impulse response of the best individual of this run.
FreshIR == CHOOSE k \in IRNames : k \notin {m_convolverL.ir, m_convolverR.ir}

\* compute(): the terminal report (total, total) and the return of
\* m_population[0].ir, the impulse response of this run.
WComputeReturn ==
    /\ worker = "final"
    /\ m_progress' = ReportProgress(NumGenerations)
    /\ bestIR' = FreshIR
    /\ worker' = "returned"
    /\ UNCHANGED <<outcome, convVars, m_maxBlockSize, m_params, m_isGenerating,
                   mutexVars, gaVars, ctl, gen, evals, okL, okR, targetSeen,
                   audioVars, histVars>>
    /\ UNCHANGED aloneVars

\* compute(): one of the return { } exits -- the population or the best
\* impulse response found empty after the evaluation, after
\* createNextGeneration(), or after the terminal report.
WComputeEmpty ==
    /\ worker \in {"eval", "next", "final"}
    /\ m_progress' = IF worker = "final" THEN ReportProgress(NumGenerations)
                     ELSE m_progress
    /\ bestIR' = EmptyIR
    /\ outcome' = "empty"
    /\ targetSeen' = 0
    /\ worker' = "returned"
    /\ UNCHANGED <<convVars, m_maxBlockSize, m_params, m_isGenerating,
                   mutexVars, gaVars, ctl, gen, evals, okL, okR, audioVars,
                   histVars>>
    /\ UNCHANGED aloneVars

\* Variants of PublishesResult: without the empty test; the test inverted.
PublishesAnyResult(ir) == TRUE
PublishesEmptyResult(ir) == ir = EmptyIR

\* Worker lambda: if (!bestIR.empty()), and setIR: if (!ir || length == 0)
PublishesResult(ir) == ir # EmptyIR

\* Worker lambda: if (!bestIR.empty()) setIR(...); setIR: the length test and
\* the exclusive acquisition of m_convolverMutex.
WSetIRLock ==
    /\ worker = "returned"
    /\ IF PublishesResult(bestIR)
       THEN /\ LockExclusive("worker")
            /\ preSetIR' = Snapshot
            /\ worker' = "initL"
       ELSE /\ UNCHANGED <<mutexVars, preSetIR>>
            /\ worker' = "clear"
    /\ UNCHANGED <<outcome, convVars, m_maxBlockSize, m_params, m_isGenerating,
                   m_progress, gaVars, ctl, gen, evals, bestIR, okL, okR,
                   targetSeen, audioVars, runTarget, cancelReq>>
    /\ UNCHANGED aloneVars

\* setIR: bool okL = m_convolverL.init(m_maxBlockSize, ir, length)
WInitL ==
    /\ worker = "initL"
    /\ \E ok \in BOOLEAN :
         /\ okL' = ok
         /\ m_convolverL' = ConvInit(m_maxBlockSize, bestIR, ok)
    /\ worker' = "initR"
    /\ UNCHANGED <<outcome, m_isIRReady, m_convolverR, m_maxBlockSize, m_params,
                   m_isGenerating, m_progress, mutexVars, gaVars, ctl, gen,
                   evals, bestIR, okR, targetSeen, audioVars, histVars>>
    /\ UNCHANGED aloneVars

\* setIR: bool okR = m_convolverR.init(m_maxBlockSize, ir, length)
WInitR ==
    /\ worker = "initR"
    /\ \E ok \in BOOLEAN :
         /\ okR' = ok
         /\ m_convolverR' = ConvInit(m_maxBlockSize, bestIR, ok)
    /\ worker' = "ready"
    /\ UNCHANGED <<outcome, m_isIRReady, m_convolverL, m_maxBlockSize, m_params,
                   m_isGenerating, m_progress, mutexVars, gaVars, ctl, gen,
                   evals, bestIR, okL, targetSeen, audioVars, histVars>>
    /\ UNCHANGED aloneVars

\* Variants of ReadyValue: the right channel's result dropped; || for &&.
ReadyValueLeftOnly(l, r) == l
ReadyValueEither(l, r) == l \/ r

\* setIR: the value stored in m_isIRReady.
ReadyValue(l, r) == l /\ r

\* setIR: m_isIRReady.store(okL && okR)
WStoreReady ==
    /\ worker = "ready"
    /\ m_isIRReady' = ReadyValue(okL, okR)
    /\ worker' = "unlock"
    /\ UNCHANGED <<outcome, m_convolverL, m_convolverR, m_maxBlockSize, m_params,
                   m_isGenerating, m_progress, mutexVars, gaVars, ctl, gen,
                   evals, bestIR, okL, okR, targetSeen, audioVars, histVars>>
    /\ UNCHANGED aloneVars

\* setIR returns: the unique_lock is released.
WUnlock ==
    /\ worker = "unlock"
    /\ UnlockExclusive("worker")
    /\ worker' = "progress"
    /\ UNCHANGED <<outcome, convVars, m_maxBlockSize, m_params, m_isGenerating,
                   m_progress, gaVars, ctl, gen, evals, bestIR, okL, okR,
                   targetSeen, audioVars, histVars>>
    /\ UNCHANGED aloneVars

\* Worker lambda: m_progress.store(1.0f)
WProgressDone ==
    /\ worker = "progress"
    /\ m_progress' = NumGenerations
    /\ preSetIR' = NoSnapshot
    /\ worker' = "clear"
    /\ UNCHANGED <<outcome, convVars, m_maxBlockSize, m_params, m_isGenerating,
                   mutexVars, gaVars, ctl, gen, evals, bestIR, okL, okR,
                   targetSeen, audioVars, runTarget, cancelReq>>
    /\ UNCHANGED aloneVars

\* Variant of GeneratingAfterRun: the flag is left as it is.
GeneratingAfterRunKept == m_isGenerating

\* Worker lambda: the value of m_isGenerating.store(false)
GeneratingAfterRun == FALSE

\* Worker lambda: setProgressCallback(nullptr), m_isGenerating.store(false)
WClear ==
    /\ worker = "clear"
    /\ m_onProgress' = FALSE
    /\ m_isGenerating' = GeneratingAfterRun
    /\ worker' = "exiting"
    /\ UNCHANGED <<convVars, m_maxBlockSize, m_params, m_progress, mutexVars,
                   m_cancel, ctl, gen, evals, bestIR, okL, okR, targetSeen,
                   outcome, audioVars, histVars>>
    /\ UNCHANGED aloneVars

\* The thread function returns: join() on m_gaThread can now return.
WExit ==
    /\ worker = "exiting"
    /\ worker' = "exited"
    \* the locals of the thread function and of compute() die with it
    /\ gen' = 0
    /\ evals' = 0
    /\ bestIR' = EmptyIR
    /\ okL' = FALSE
    /\ okR' = FALSE
    /\ targetSeen' = 0
    /\ runTarget' = 0
    /\ UNCHANGED <<outcome, convVars, m_maxBlockSize, m_params,
                   m_isGenerating, m_progress, mutexVars, gaVars, ctl,
                   audioVars, cancelReq, preSetIR>>
    /\ UNCHANGED aloneVars

\* -------------------------------------------------------- audio thread
\* Variant of Memset0 that stops one sample short.
Memset0Short(buf, n) == [i \in 1..Len(buf) |-> IF i < n THEN 0 ELSE buf[i]]

\* std::memset(out, 0, numSamples * sizeof(float))
Memset0(buf, n) == [i \in 1..Len(buf) |-> IF i <= n THEN 0 ELSE buf[i]]

\* process(): the load of m_isIRReady; not ready -> both memsets and return.
AudioProcess ==
    /\ audio = "idle"
    /\ \E n \in 1..MaxSamples : numSamples' = n
    /\ IF ~m_isIRReady
       THEN /\ outBufferL' = Memset0(outBufferL, numSamples')
            /\ outBufferR' = Memset0(outBufferR, numSamples')
            /\ audio' = "silent"
       ELSE /\ UNCHANGED <<outBufferL, outBufferR>>
            /\ audio' = "lock"
    /\ UNCHANGED <<convVars, m_maxBlockSize, m_params, m_isGenerating,
                   m_progress, mutexVars, gaVars, ctl, workerVars, histVars>>
    /\ UNCHANGED aloneVars

\* process(): std::shared_lock lock(m_convolverMutex)
AudioLockShared ==
    /\ audio = "lock"
    /\ mutexWriter = "none"
    /\ mutexReaders' = mutexReaders + 1
    /\ audio' = "convL"
    /\ UNCHANGED <<convVars, m_maxBlockSize, m_params, m_isGenerating,
                   m_progress, mutexWriter, gaVars, ctl, workerVars,
                   numSamples, outBufferL, outBufferR, histVars>>
    /\ UNCHANGED aloneVars

\* process(): m_convolverL.process(inBufferL, outBufferL, numSamples)
AudioConvolveL ==
    /\ audio = "convL"
    /\ outBufferL' = ConvProcess(m_convolverL, outBufferL, numSamples)
    /\ audio' = "convR"
    /\ UNCHANGED <<convVars, m_maxBlockSize, m_params, m_isGenerating,
                   m_progress, mutexVars, gaVars, ctl, workerVars, numSamples,
                   outBufferR, histVars>>
    /\ UNCHANGED aloneVars

\* process(): m_convolverR.process(inBufferR, outBufferR, numSamples), then
\* the shared_lock goes out of scope.
AudioConvolveR ==
    /\ audio = "convR"
    /\ outBufferR' = ConvProcess(m_convolverR, outBufferR, numSamples)
    /\ mutexReaders' = mutexReaders - 1
    /\ audio' = "convolved"
    /\ UNCHANGED <<convVars, m_maxBlockSize, m_params, m_isGenerating,
                   m_progress, mutexWriter, gaVars, ctl, workerVars,
                   numSamples, outBufferL, histVars>>
    /\ UNCHANGED aloneVars

\* process() has returned; the host consumes the block and comes back with
\* buffers whose content is arbitrary.
AudioReturn ==
    /\ audio \in {"silent", "convolved"}
    /\ audio' = "idle"
    /\ numSamples' = 0
    /\ outBufferL' = DirtyBuffer
    /\ outBufferR' = DirtyBuffer
    /\ UNCHANGED <<convVars, m_maxBlockSize, m_params, m_isGenerating,
                   m_progress, mutexVars, gaVars, ctl, workerVars, histVars>>
    /\ UNCHANGED aloneVars

\* ------------------------------------------- the optimizer on its own
\* GeneticAlgorithm constructed with any population size and compute()
\* called directly, with a callback that records what it is handed.
ctrlVars == <<convVars, m_maxBlockSize, m_params, m_isGenerating, m_progress,
              mutexVars, ctl, workerVars, audioVars, histVars>>
restVars == <<ctrlVars, plugVars, analysisVars, pureVars>>

NewIndividual == [ir |-> EmptyIR, len |-> 0, fitness |-> Unevaluated]

\* GeneticAlgorithm(populationSize, ...): m_population.resize(m_popSize); a
\* negative size converts to a size_t beyond max_size() and resize throws.
OptConstruct ==
    /\ opt = "new"
    /\ \E p \in PopSizes :
         /\ m_popSize' = p
         /\ IF p < 0
            THEN /\ m_population' = << >>
                 /\ opt' = "length_error"
            ELSE /\ m_population' = [i \in 1..p |-> NewIndividual]
                 /\ opt' = "constructed"
    /\ UNCHANGED <<restVars, gaVars, optGen, optEvals, reports, optResult,
                   eliteCount, parents, optOutcome, optBest>>

\* setProgressCallback(cb) / setProgressCallback(nullptr)
OptSetProgressCallback ==
    /\ opt = "constructed"
    /\ m_onProgress' = ~m_onProgress
    /\ UNCHANGED <<restVars, m_cancel, optVars>>

\* cancel() from another thread while compute() runs
OptCancel ==
    /\ opt \in {"eval", "check", "next"}
    /\ ~m_cancel
    /\ m_cancel' = TRUE
    /\ UNCHANGED <<restVars, m_onProgress, optVars>>

\* resetCancel()
OptResetCancel ==
    /\ opt \in {"constructed", "returned"}
    /\ m_cancel
    /\ m_cancel' = CancelAfterReset(m_cancel)
    /\ UNCHANGED <<restVars, m_onProgress, optVars>>

\* A report made whether or not a callback is registered.
OptReportUnasked(r, cur, best) == Append(r, [cur |-> cur, best |-> best])

\* m_onProgress(cur, total, best), when a callback is registered.
OptReport(r, cur, best) ==
    IF m_onProgress THEN Append(r, [cur |-> cur, best |-> best]) ELSE r

\* Variant of PopulationInvalid that lets a population of size 0 through.
PopulationInvalidNegativeOnly(p) == p < 0

\* compute(): if (m_popSize <= 0)
PopulationInvalid(p) == p <= 0

\* The random impulse responses of the slots lo .. hi.  Nothing reads the
\* order of fresh individuals before the next std::sort, so one order stands
\* for all its permutations: the responses in non-decreasing order, given
\* by how many of them lie at or below each genome.
RandomIRs(lo, hi) ==
    LET n == hi - lo + 1
        G == Cardinality(Genomes)
    IN  {[i \in lo..hi |->
             1 + Cardinality({g \in 1..(G - 1) : upTo[g] < i - lo + 1})] :
            upTo \in [1..(G - 1) -> 0..n]}

\* initializePopulation(): irLength = targetT60 * 1.5 * m_sampleRate, at
\* least 1024 (the target in milliseconds, a target of 0.1 ms or less taken
\* as 1 ms).
IRLength(t60) ==
    LET t == IF t60 <= 0 THEN 1 ELSE t60
        l == (t * 3 * SampleRate) \div 2000
    IN  IF l < MinIRLength THEN MinIRLength ELSE l

\* initializePopulation(): every individual gets a random impulse response
\* of irLength samples and fitness 1e10; an empty population is left alone.
InitializedPopulations(pop, t60) ==
    IF pop = << >>
    THEN {pop}
    ELSE {[i \in DOMAIN pop |-> [ir |-> irs[i], len |-> IRLength(t60),
                                 fitness |-> Unevaluated]] :
             irs \in RandomIRs(1, Len(pop))}

\* compute(): the population-size test, the report (0, total, 1e10) and
\* initializePopulation().
OptComputeBegin ==
    /\ opt \in {"constructed", "returned"}
    /\ optGen' = 0
    /\ optEvals' = 0
    /\ eliteCount' = 0
    /\ parents' = {}
    /\ optBest' = NewIndividual
    /\ IF PopulationInvalid(m_popSize)
       THEN /\ optResult' = EmptyIR
            /\ reports' = << >>
            /\ opt' = "returned"
            /\ optOutcome' = "invalid"
            /\ UNCHANGED m_population
       ELSE /\ reports' = OptReport(<< >>, 0, Unevaluated)
            /\ m_population' \in InitializedPopulations(m_population, m_params)
            /\ opt' = "eval"
            /\ optOutcome' = "none"
            /\ UNCHANGED optResult
    /\ UNCHANGED <<restVars, gaVars, m_popSize>>

\* calculatePopulationFitness() for one individual: an empty impulse
\* response gets 1e10, any other one its distance from the target.
FitnessOf(ir) == IF ir = EmptyIR THEN Unevaluated ELSE ir - 1

\* Variant of Evaluated: the fitness values are left as they are.
EvaluatedNever(pop) == pop

Evaluated(pop) ==
    [i \in DOMAIN pop |-> [pop[i] EXCEPT !.fitness = FitnessOf(pop[i].ir)]]

\* Variant of SortedByFitness: the order is left as it is.
SortedNever(pop) == pop

\* std::sort with Individual::operator< (ascending fitness).
SortedByFitness(pop) ==
    [i \in DOMAIN pop |->
        LET AtMost(f) == Cardinality({j \in DOMAIN pop : pop[j].fitness <= f})
            f == CHOOSE g \in 0..Unevaluated :
                    /\ AtMost(g) >= i
                    /\ \A h \in 0..(g - 1) : AtMost(h) < i
        IN  CHOOSE x \in {pop[j] : j \in DOMAIN pop} : x.fitness = f]

\* compute(): calculatePopulationFitness, the empty tests, std::sort and the
\* report (gen + 1, total, best) of one generation.
OptEval ==
    /\ opt = "eval"
    /\ LET sorted == SortedByFitness(Evaluated(m_population))
       IN  IF m_population = << >>
           THEN /\ optResult' = EmptyIR
                /\ opt' = "returned"
                /\ optOutcome' = "empty"
                /\ UNCHANGED <<m_population, reports, optEvals, optBest>>
           ELSE /\ m_population' = sorted
                /\ optEvals' = optEvals + 1
                /\ optBest' = sorted[1]
                /\ IF sorted[1].ir = EmptyIR
                   THEN /\ optResult' = EmptyIR
                        /\ opt' = "returned"
                        /\ optOutcome' = "empty"
                        /\ UNCHANGED reports
                   ELSE /\ reports' =
                             OptReport(reports, optGen + 1, sorted[1].fitness)
                        /\ opt' = "check"
                        /\ UNCHANGED <<optResult, optOutcome>>
    /\ UNCHANGED <<restVars, gaVars, m_popSize, optGen, eliteCount, parents>>

\* compute(): m_population[0].fitness < 0.001
Converged(f) == f < 1

\* compute(): the two break tests.
OptCheck ==
    /\ opt = "check"
    /\ LET converged == Converged(m_population[1].fitness)
       IN  IF LoopBreaks(converged, m_cancel)
           THEN /\ opt' = "final"
                /\ optOutcome' = IF converged THEN "converged" ELSE "cancelled"
           ELSE /\ opt' = "next"
                /\ UNCHANGED optOutcome
    /\ UNCHANGED <<restVars, gaVars, m_popSize, m_population, optGen,
                   optEvals, reports, optResult, eliteCount, parents, optBest>>

\* Variant of EliteCount without the clamp to at least one elite.
EliteCountUnclamped(p) == (p * 20) \div 100

\* Variant of EliteCount that rounds 20 % to the nearest integer.
EliteCountRounded(p) ==
    LET e == (p * 20 + 50) \div 100
    IN  IF e < 1 THEN IF p < 1 THEN p ELSE 1
        ELSE IF e > p THEN p ELSE e

\* createNextGeneration(): eliteCount = m_popSize * 20 / 100, at least 1, at
\* most m_popSize.
EliteCount(p) ==
    LET e == (p * 20) \div 100
    IN  IF e < 1 THEN IF p < 1 THEN p ELSE 1
        ELSE IF e > p THEN p ELSE e

\* Variant of EliteCopy: the copy starts over with the initial fitness.
EliteCopyUnevaluated(ind) == [ind EXCEPT !.fitness = Unevaluated]

\* createNextGeneration(): newPopulation[i] = m_population[i]
EliteCopy(ind) == ind

\* Variant of ParentRange: parents are drawn from the whole population.
ParentRangeAll(p, ec) == 0 .. (p - 1)

\* createNextGeneration(): distElite(0, eliteCount - 1), the indices a parent
\* is drawn from.  With eliteCount < 1 the distribution is constructed with
\* b < a, which is undefined: any index may come out.
ParentRange(p, ec) == IF ec >= 1 THEN 0 .. (ec - 1) ELSE 0 .. (p - 1)

\* The sets of indices distElite hands out during one createNextGeneration():
\* none if there is no child to make.
ParentDraws(p, ec) ==
    IF ec >= p THEN {{}} ELSE SUBSET ParentRange(p, ec) \ {{}}

\* Variant of ChildLength: the child is as long as both parents together.
ChildLengthSum(len1, len2) == len1 + len2

\* crossover(): irLength = std::max(len1, len2); mutate() keeps the length.
ChildLength(len1, len2) == IF len1 >= len2 THEN len1 ELSE len2

\* createNextGeneration(): the elite is copied, every other slot gets a
\* child of two parents out of drawn, crossed over and mutated: some
\* impulse response (none if both parents have none), with fitness 1e10.
NextGenerations(pop, p, ec, drawn) ==
    LET lens == {ChildLength(pop[a + 1].len, pop[b + 1].len) :
                    a \in drawn, b \in drawn}
    IN  {[i \in 1..p |->
            IF i <= ec
            THEN EliteCopy(pop[i])
            ELSE [ir |-> IF klen[i] = 0 THEN EmptyIR ELSE kids[i],
                  len |-> klen[i], fitness |-> Unevaluated]] :
           kids \in RandomIRs(ec + 1, p), klen \in [(ec + 1)..p -> lens]}

\* compute(): the loop test gen < numGenerations
LoopContinuesOnceMore(g) == g <= NumGenerations
LoopContinues(g) == g < NumGenerations

\* compute(): m_population = createNextGeneration(), the empty test, ++gen
\* and the loop test.
OptNextGeneration ==
    /\ opt = "next"
    /\ IF m_popSize <= 0
       THEN /\ m_population' = << >>
            /\ optResult' = EmptyIR
            /\ opt' = "returned"
            /\ optOutcome' = "empty"
            /\ UNCHANGED <<optGen, eliteCount, parents>>
       ELSE /\ eliteCount' = EliteCount(m_popSize)
            /\ parents' \in ParentDraws(m_popSize, eliteCount')
            /\ m_population' \in NextGenerations(m_population, m_popSize,
                                                 eliteCount', parents')
            /\ optGen' = optGen + 1
            /\ IF LoopContinues(optGen + 1)
               THEN /\ opt' = "eval"
                    /\ UNCHANGED optOutcome
               ELSE /\ opt' = "final"
                    /\ optOutcome' = "exhausted"
            /\ UNCHANGED optResult
    /\ UNCHANGED <<restVars, gaVars, m_popSize, optEvals, reports, optBest>>

\* compute(): the terminal report (total, total, best) and the return.
OptComputeReturn ==
    /\ opt = "final"
    /\ LET none == m_population = << >> \/ m_population[1].ir = EmptyIR
       IN  /\ reports' = OptReport(reports, NumGenerations,
                                   IF none THEN Unevaluated
                                   ELSE m_population[1].fitness)
           /\ optResult' = IF none THEN EmptyIR ELSE m_population[1].ir
    /\ opt' = "returned"
    /\ UNCHANGED <<restVars, gaVars, m_popSize, m_population, optGen,
                   optEvals, eliteCount, parents, optOutcome, optBest>>

\* ~GeneticAlgorithm(), or the unwinding of the constructor that threw.
OptDestroy ==
    /\ opt \in {"returned", "length_error"}
    /\ opt' = "new"
    /\ m_popSize' = 0
    /\ m_population' = << >>
    /\ optGen' = 0
    /\ optEvals' = 0
    /\ reports' = << >>
    /\ optResult' = EmptyIR
    /\ eliteCount' = 0
    /\ parents' = {}
    /\ optOutcome' = "none"
    /\ optBest' = NewIndividual
    /\ m_cancel' = FALSE
    /\ m_onProgress' = FALSE
    /\ UNCHANGED restVars

\* ------------------------------------------------ the plug-in's setters
\* GeneticReverb_SetParameterFloat on a plug-in that create() has set up.
\* A float is written in thousandths; NaN is the float that compares false
\* with every float, itself included.
NaN == -1000000
FloatLess(a, b) == a # NaN /\ b # NaN /\ a < b

\* if (value < lo) value = lo; if (value > hi) value = hi;
Clamped(value, lo, hi) ==
    LET v == IF FloatLess(value, lo) THEN lo ELSE value
    IN  IF FloatLess(hi, v) THEN hi ELSE v

\* The parameter indices a call may carry (NUM_PARAMETERS: one past the
\* last) and the values.
ParamIndices == {"DRY", "WET", "VOLUME", "T60", "C80", "GENERATE", "CANCEL",
                 "PROGRESS", "NUM_PARAMETERS"}
ParamValues == {NaN, -50000, -1, 500, 1500, 50000}

\* GeneticReverb_SetParameterFloat(dsp_state, index, value); T60 and C80
\* call processor->setTargetParams(state->params), which stores the target.
SetParameterFloat ==
    /\ \E index \in ParamIndices, value \in ParamValues :
         /\ plugIndex' = index
         /\ plugValue' = value
         /\ dry' = IF index = "DRY" THEN Clamped(value, 0, 1000) ELSE dry
         /\ wet' = IF index = "WET" THEN Clamped(value, 0, 1000) ELSE wet
         /\ volume' = IF index = "VOLUME" THEN Clamped(value, 0, 2000)
                      ELSE volume
         /\ params' =
              IF index = "T60"
              THEN [params EXCEPT !.t60 = Clamped(value, 50, 10000)]
              ELSE IF index = "C80"
              THEN [params EXCEPT !.c80 = Clamped(value, -40000, 40000)]
              ELSE params
         /\ IF index \in {"T60", "C80"}
            THEN /\ sentParams' = params'
                 /\ m_params' = params'.t60
            ELSE UNCHANGED <<sentParams, m_params>>
         /\ result' = IF index \in {"DRY", "WET", "VOLUME", "T60", "C80",
                                    "PROGRESS"}
                      THEN "FMOD_OK" ELSE "FMOD_ERR_INVALID_PARAM"
    /\ UNCHANGED <<convVars, m_maxBlockSize, m_isGenerating, m_progress,
                   mutexVars, ctl, workerVars, audioVars, histVars, gaVars,
                   optVars, analysisVars, pureVars>>

\* ------------------------------------------------ the analysis helpers
\* calculateSchroederDecay, calculateT60 and calculateEDT.  Levels are in dB;
\* a time is a number of samples (seconds times the sample rate).
DbLevels == {0, -3, -5, -10, -20, -35}
\* The level of every sample of a curve without energy.
SilentLevel == -100

\* calculateSchroederDecay(): the curves it returns -- none for an empty
\* impulse response, all SilentLevel for one without energy, otherwise 0 dB
\* at the first sample and never rising.
SchroederCurves ==
    {c \in UNION {[1..n -> DbLevels \cup {SilentLevel}] : n \in 0..MaxCurveLen} :
        \/ \A i \in DOMAIN c : c[i] = SilentLevel
        \/ /\ \A i \in DOMAIN c : c[i] \in DbLevels
           /\ c[1] = 0
           /\ \A i \in 1..(Len(c) - 1) : c[i + 1] <= c[i]}

\* Variant of FindTimeForDB that answers 0 for a level never reached.
FindTimeForDBOrStart(edc, db) ==
    IF \E i \in DOMAIN edc : edc[i] <= db
    THEN (CHOOSE i \in DOMAIN edc :
             /\ edc[i] <= db
             /\ \A j \in 1..(i - 1) : edc[j] > db) - 1
    ELSE 0

\* findTimeForDB(db): the index of the first sample at or below db, the last
\* index if there is none.
FindTimeForDB(edc, db) ==
    IF \E i \in DOMAIN edc : edc[i] <= db
    THEN (CHOOSE i \in DOMAIN edc :
             /\ edc[i] <= db
             /\ \A j \in 1..(i - 1) : edc[j] > db) - 1
    ELSE Len(edc) - 1

\* calculateT60(edc_dB, sampleRate), times the sample rate
CalculateT60(edc) ==
    LET t30_samples == FindTimeForDB(edc, -35) - FindTimeForDB(edc, -5)
    IN  IF t30_samples <= 0 THEN 0 ELSE t30_samples * 2

\* calculateEDT(edc_dB, sampleRate), times the sample rate
CalculateEDT(edc) ==
    LET t10_samples == FindTimeForDB(edc, -10) - FindTimeForDB(edc, 0)
    IN  IF t10_samples <= 0 THEN 0 ELSE t10_samples * 6

\* auto edc = calculateSchroederDecay(ir) for some impulse response
AnalysisDecay ==
    /\ edc_dB' \in SchroederCurves
    /\ called' = "calculateSchroederDecay"
    /\ returned' = 0
    /\ UNCHANGED <<ctrlVars, gaVars, optVars, plugVars, pureVars>>

AnalysisT60 ==
    /\ called # "none"
    /\ called' = "calculateT60"
    /\ returned' = CalculateT60(edc_dB)
    /\ UNCHANGED <<ctrlVars, gaVars, optVars, plugVars, edc_dB, pureVars>>

AnalysisEDT ==
    /\ called # "none"
    /\ called' = "calculateEDT"
    /\ returned' = CalculateEDT(edc_dB)
    /\ UNCHANGED <<ctrlVars, gaVars, optVars, plugVars, edc_dB, pureVars>>

\* ------------------------------------------------------- specification
ControlStep ==
    \/ Prepare \/ PrepareJoin \/ PrepareLock \/ PrepareReset \/ PrepareUnlock
    \/ Release \/ ReleaseJoin \/ ReleaseLock \/ ReleaseReset \/ ReleaseUnlock
    \/ StartGenerate \/ StartReturn \/ StartSpawn
    \/ CancelIR \/ CancelReturn \/ CancelJoin

WorkerStep ==
    \/ WStart \/ WComputeBegin \/ WEval \/ WCheck \/ WNextGeneration
    \/ WComputeReturn
    \/ WSetIRLock \/ WInitL \/ WInitR \/ WStoreReady \/ WUnlock
    \/ WProgressDone \/ WClear \/ WExit

AudioStep ==
    \/ AudioProcess \/ AudioLockShared \/ AudioConvolveL \/ AudioConvolveR
    \/ AudioReturn

\* The three threads, with the target descriptors left as constructed.  The
\* descriptors only enter the fitness values, so every property that is not
\* about them is checked here.
Next == ControlStep \/ WorkerStep \/ AudioStep

Spec == Init /\ [][Next]_vars

\* The same with setTargetParams() calls from the control thread.
NextTargets == Next \/ SetTargetParams

SpecTargets == Init /\ [][NextTargets]_vars

\* The three threads with a compute() that may come back empty.  With the 50
\* individuals of the controller's optimizer the return { } exits are not
\* taken; here they are, to see what the worker does with an empty result.
NextFailing == Next \/ WComputeEmpty

SpecFailing == Init /\ [][NextFailing]_vars

\* Scheduling: a thread that can run does run.  The worker is never
\* suspended for ever, and it gets m_convolverMutex if the mutex is free
\* again and again; a thread that holds the mutex goes on to release it.
\* The control thread and the audio thread are free not to call at all.
WorkerRuns ==
    \/ WStart \/ WComputeBegin \/ WEval \/ WCheck \/ WNextGeneration
    \/ WComputeReturn
    \/ WInitL \/ WInitR \/ WStoreReady \/ WUnlock
    \/ WProgressDone \/ WClear \/ WExit

LockHolderRuns ==
    \/ PrepareReset \/ PrepareUnlock \/ ReleaseReset \/ ReleaseUnlock
    \/ AudioConvolveL \/ AudioConvolveR

Fairness ==
    /\ WF_vars(WorkerRuns)
    /\ SF_vars(WSetIRLock)
    /\ WF_vars(LockHolderRuns)

SpecLive == Init /\ [][NextFailing]_vars /\ Fairness

\* The optimizer on its own: no controller call is made.
InitOptimizer ==
    /\ InitController
    /\ opt = "new"
    /\ m_popSize = 0
    /\ m_population = << >>
    /\ optGen = 0
    /\ optEvals = 0
    /\ reports = << >>
    /\ optResult = EmptyIR
    /\ eliteCount = 0
    /\ parents = {}
    /\ optOutcome = "none"
    /\ optBest = NewIndividual
    /\ InitPlugin
    /\ InitAnalysis
    /\ InitPure

NextOptimizer ==
    \/ OptConstruct \/ OptSetProgressCallback \/ OptCancel \/ OptResetCancel
    \/ OptComputeBegin \/ OptEval \/ OptCheck \/ OptNextGeneration
    \/ OptComputeReturn \/ OptDestroy

SpecOptimizer == InitOptimizer /\ [][NextOptimizer]_vars

\* ------------------------------------------------ crossover and mutate
\* One crossover(parent1, parent2) followed by one mutate(child), on impulse
\* responses of at most MaxIRLen samples.  Samples are in thousandths, and
\* index i here is the source's index i - 1.
MaxIRLen == 2

SampleValues == {-500, 500}

ImpulseResponses == UNION {[1 .. n -> SampleValues] : n \in 0 .. MaxIRLen}

\* What reading a vector past its end may yield: anything.
OutOfRange == {-500, 0, 500, 900}

\* The second revision's choice: the coin alone, no length looked at.
CrossoverPickUnguarded(len1, len2, i, pickFirst) ==
    IF pickFirst THEN "parent1" ELSE "parent2"

\* The parent crossover reads sample i from: the coin's parent while it has
\* a sample i, else the other parent, else the constant 0.0f.
CrossoverPick(len1, len2, i, pickFirst) ==
    IF pickFirst
    THEN IF i <= len1 THEN "parent1"
         ELSE IF i <= len2 THEN "parent2" ELSE "zero"
    ELSE IF i <= len2 THEN "parent2"
         ELSE IF i <= len1 THEN "parent1" ELSE "zero"

\* ir[i] of a std::vector: the element, or anything past the end.
SampleReads(ir, i) == IF i \in DOMAIN ir THEN {ir[i]} ELSE OutOfRange

PickedSamples(from, i) ==
    IF from = "parent1" THEN SampleReads(parent1, i)
    ELSE IF from = "parent2" THEN SampleReads(parent2, i)
    ELSE {0}

\* mutate adds m_distNeg1to1(m_rng) * 0.1f, a value in [-0.1, 0.1), to the
\* samples the mutation rate selects and nothing to the others.
Perturbations == {-100, 0, 99}

\* Two parents handed to crossover.
PickParents ==
    /\ parent1' \in ImpulseResponses
    /\ parent2' \in ImpulseResponses
    /\ child' = [ir |-> << >>, fitness |-> Unevaluated]
    /\ picked' = << >>
    /\ xo' = "parents"
    /\ UNCHANGED <<ctrlVars, gaVars, optVars, plugVars, analysisVars,
                   initVars, sortVars>>

\* crossover: the child has the longer parent's length (an empty child when
\* both are empty), one coin per sample, and the sentinel fitness.
Crossover ==
    /\ xo = "parents"
    /\ LET len1 == Len(parent1)
           len2 == Len(parent2)
           n == ChildLength(len1, len2)
       IN \E coin \in [1 .. n -> BOOLEAN] :
            /\ picked' = [i \in 1 .. n |->
                             CrossoverPick(len1, len2, i, coin[i])]
            /\ \E ir \in [1 .. n -> SampleValues \cup OutOfRange] :
                 /\ \A i \in 1 .. n : ir[i] \in PickedSamples(picked'[i], i)
                 /\ child' = [ir |-> ir, fitness |-> Unevaluated]
    /\ xo' = "crossed"
    /\ UNCHANGED <<parent1, parent2>>
    /\ UNCHANGED <<ctrlVars, gaVars, optVars, plugVars, analysisVars,
                   initVars, sortVars>>

\* mutate: nothing for an empty child, else a perturbation per sample.
Mutate ==
    /\ xo = "crossed"
    /\ IF child.ir = << >>
       THEN UNCHANGED child
       ELSE \E noise \in [DOMAIN child.ir -> Perturbations] :
              child' = [child EXCEPT
                          !.ir = [i \in DOMAIN child.ir |->
                                     child.ir[i] + noise[i]]]
    /\ xo' = "mutated"
    /\ UNCHANGED <<parent1, parent2, picked>>
    /\ UNCHANGED <<ctrlVars, gaVars, optVars, plugVars, analysisVars,
                   initVars, sortVars>>

NextCrossover == PickParents \/ Crossover \/ Mutate

SpecCrossover == Init /\ [][NextCrossover]_vars

\* ------------------------------------------------ initializePopulation
\* One initializePopulation(targetT60) of an optimizer constructed with some
\* sample rate.  T60 is in units of 1/1024 ms, and the targets tried are the
\* multiples of 2^-13 s: these are floats, so the double product
\* targetT60 * 1.5 * m_sampleRate is the exact one.  The sample rates are
\* multiples of 100 Hz, and the product is computed with the rate in
\* hundreds to stay within 32 bits.
UnitsPerMs == 1024

\* 0.0001f, the largest T60 the clamp replaces (102.4 units).
SmallT60 == 102

\* 0.001f, what the clamp replaces it with.
MinT60 == 1024

MaxT60 == 130

TargetT60s == {125 * k : k \in -1 .. MaxT60}

SampleRates == {SampleRate, 48000}

\* if (targetT60 <= 0.0001f) targetT60 = 0.001f;
ClampedT60(t) == IF t <= SmallT60 THEN MinT60 ELSE t

\* The product rounded to the nearest integer, not truncated.
InitialIRLengthRounded(t, rate) ==
    LET l == (3 * ClampedT60(t) * (rate \div 100) + 10 * UnitsPerMs)
                 \div (20 * UnitsPerMs)
    IN  IF l < MinIRLength THEN MinIRLength ELSE l

\* irLength: static_cast<size_t> of targetT60 * 1.5 * m_sampleRate, which
\* drops the fraction, raised to 1024.
InitialIRLength(t, rate) ==
    LET l == (3 * ClampedT60(t) * (rate \div 100)) \div (20 * UnitsPerMs)
    IN  IF l < MinIRLength THEN MinIRLength ELSE l

\* The T60 the decay envelope pow(10, -3 t / targetT60) divides by: the
\* local targetT60, as the clamp left it.
EnvelopeT60(t) == ClampedT60(t)

InitializePopulation ==
    /\ \E t \in TargetT60s, rate \in SampleRates :
         /\ initT60' = t
         /\ m_sampleRate' = rate
         /\ irLength' = InitialIRLength(t, rate)
         /\ envelopeT60' = EnvelopeT60(t)
    /\ UNCHANGED <<ctrlVars, gaVars, optVars, plugVars, analysisVars,
                   xoVars, sortVars>>

SpecInitialize == Init /\ [][InitializePopulation]_vars

\* ------------------------------------------------ the per-generation sort
\* One std::sort(m_population.begin(), m_population.end()) of a population
\* of at most MaxSortLen individuals, each known by its index before the
\* sort and its fitness.
MaxSortLen == 3

SortFitness == 0 .. Unevaluated

UnsortedPopulations ==
    UNION {[1 .. n -> SortFitness] : n \in 1 .. MaxSortLen}

Arrangements(n) ==
    {p \in [1 .. n -> 1 .. n] : \A i, j \in 1 .. n : i # j => p[i] # p[j]}

\* Individual::operator<
IndividualLess(a, b) == a < b

\* Any arrangement at all, ordered or not.
StdSortsUnordered(pop) ==
    {[i \in DOMAIN pop |-> [index |-> p[i] - 1, fitness |-> pop[p[i]]]] :
        p \in Arrangements(Len(pop))}

\* What std::sort may leave: an arrangement in which no individual is less
\* than the one before it.  std::sort does not keep the order of equivalent
\* elements, so every such arrangement is an outcome.
StdSorts(pop) ==
    {[i \in DOMAIN pop |-> [index |-> p[i] - 1, fitness |-> pop[p[i]]]] :
        p \in {q \in Arrangements(Len(pop)) :
                 \A i \in 1 .. (Len(pop) - 1) :
                    ~IndividualLess(pop[q[i + 1]], pop[q[i]])}}

\* A population with its fitness calculated.
SortPick ==
    /\ sortIn' \in UnsortedPopulations
    /\ sortOut' = << >>
    /\ UNCHANGED <<ctrlVars, gaVars, optVars, plugVars, analysisVars,
                   xoVars, initVars>>

StdSort ==
    /\ sortIn # << >>
    /\ sortOut = << >>
    /\ sortOut' \in StdSorts(sortIn)
    /\ UNCHANGED sortIn
    /\ UNCHANGED <<ctrlVars, gaVars, optVars, plugVars, analysisVars,
                   xoVars, initVars>>

NextSort == SortPick \/ StdSort

SpecSort == Init /\ [][NextSort]_vars

\* The plug-in's float setter, called with any index and value.
SpecPlugin == Init /\ [][SetParameterFloat]_vars

\* The analysis helpers, applied to the curves calculateSchroederDecay makes.
NextAnalysis == AnalysisDecay \/ AnalysisT60 \/ AnalysisEDT

SpecAnalysis == Init /\ [][NextAnalysis]_vars

\* ------------------------------------------------------------ properties
ConvState == [L |-> m_convolverL, R |-> m_convolverR, ready |-> m_isIRReady,
              set |-> TRUE]
PublishedIR(c) == <<c.L.ir, c.R.ir, c.ready>>
InPass == audio \in {"convL", "convR"}
SetIRFailed == worker = "progress" /\ ~(okL /\ okR)
GenerationsAfterRequest == evals - cancelReq.evals

\* C1: whenever process() is inside its convolution pass, the two convolvers
\* are in the state one and the same call left them in: never one of them
\* initialised by a setIR call and the other one not (failed in that call),
\* and when they hold impulse responses, it is the same one with the same
\* block size.
C1_PassSeesOneSetIR ==
    InPass =>
        /\ m_convolverL.st = m_convolverR.st
        /\ m_convolverL.st = "ok" => m_convolverR = m_convolverL

\* C2: whenever process() is inside its convolution pass, m_isIRReady is true
\* and both convolvers are initialised.
C2_ConvolvesOnlyWhenReady ==
    InPass =>
        /\ m_isIRReady
        /\ m_convolverL.st = "ok"
        /\ m_convolverR.st = "ok"

\* C3: when cancelIR() was called during a run and compute() ended that run
\* on the cancellation test, then, once the worker has ended and cancelIR()
\* is about to return, the impulse responses in the convolvers and
\* m_isIRReady are what they were when cancelIR() was called.
C3_CancelLeavesStateUntouched ==
    (ctl = "cancel_join" /\ worker = "exited" /\ outcome = "cancelled")
    => PublishedIR(ConvState) = PublishedIR(cancelReq.conv)

\* C4 (as claimed): after a setIR in which an init failed, a session that was
\* ready before is still ready, with the convolvers it had.
C4_FailedInitKeepsOldState ==
    (SetIRFailed /\ preSetIR.ready) => ConvState = preSetIR

\* C4 (amended): after a setIR in which an init failed, m_isIRReady is false,
\* whether the session was ready before or not.
C4_FailedInitClearsReady ==
    SetIRFailed => ~m_isIRReady

\* A ready session went through a setIR whose left init succeeded and whose
\* right init failed.
C4_Witness ==
    SetIRFailed /\ preSetIR.ready /\ okL /\ ~okR /\ ~m_isIRReady

\* C5: after a cancel() issued by cancelIR() during a run, the worker
\* evaluates at most one further generation.
C5_CancelNeverLost ==
    (ctl = "cancel_join" /\ cancelReq.at # "none")
    => GenerationsAfterRequest <= 1

\* C6: every fitness evaluation of a run reads the target descriptors that
\* were in m_params when startGenerate() spawned the run.
C6_RunUsesStartTarget ==
    targetSeen # 0 => targetSeen = runTarget

\* C7: process() is never waiting for m_convolverMutex while a writer (the
\* worker in setIR, or prepare()/release()) holds it.
C7_ProcessNeverWaits ==
    ~(audio = "lock" /\ mutexWriter # "none")

\* C8: a process() call that finds m_isIRReady false returns through the
\* silent path with the first numSamples samples of both output buffers set
\* to 0 and with both convolvers untouched.
C8_SilenceWhenNotReady ==
    [][(audio = "idle" /\ audio' # "idle" /\ ~m_isIRReady) =>
          /\ audio' = "silent"
          /\ \A i \in 1..numSamples' :
                outBufferL'[i] = 0 /\ outBufferR'[i] = 0
          /\ UNCHANGED <<m_convolverL, m_convolverR>>]_vars

\* process() returned silence for one sample of a longer buffer while the
\* left convolver holds an impulse response and m_isIRReady is false.
C8_Witness ==
    /\ audio = "silent"
    /\ numSamples = 1
    /\ outBufferL[1] = 0 /\ outBufferR[1] = 0
    /\ outBufferL[MaxSamples] = Dirty
    /\ m_convolverL.st = "ok"

\* C9: with the mutex not held exclusively, m_isIRReady implies that both
\* convolvers were initialised with the same impulse response and block size;
\* and when setIR has stored the flag, it is true only if both inits succeeded.
C9_ReadyMeansBothInitialised ==
    /\ (mutexWriter = "none" /\ m_isIRReady) =>
          (m_convolverL.st = "ok" /\ m_convolverR = m_convolverL)
    /\ (worker \in {"unlock", "progress"} /\ m_isIRReady) => (okL /\ okR)

\* A session made ready by setIR after prepare() changed the block size.
C9_Witness ==
    /\ mutexWriter = "none"
    /\ m_isIRReady
    /\ worker = "progress"
    /\ m_convolverL = ConvLoaded(bestIR, m_maxBlockSize)
    /\ m_convolverR = m_convolverL
    /\ m_maxBlockSize # DefaultBlockSize

\* C10 (as claimed): a cancel() made during compute(), after at least one
\* generation, is followed by at most one further generation, by termination
\* before generation NumGenerations and by a non-empty result.
C10_CancelStopsBeforeLast ==
    (worker = "returned" /\ cancelReq.at = "mid" /\ cancelReq.evals >= 1) =>
        /\ GenerationsAfterRequest <= 1
        /\ evals < NumGenerations
        /\ bestIR # EmptyIR

\* C10 (amended): such a cancel() is followed by at most one further
\* generation and by a non-empty result; compute() ends before generation
\* NumGenerations if the request came before generation NumGenerations - 1
\* had been evaluated.
C10_CancelStopsWithinOneGeneration ==
    /\ cancelReq.at = "mid" => GenerationsAfterRequest <= 1
    /\ (worker = "returned" /\ cancelReq.at = "mid" /\ cancelReq.evals >= 1) =>
          /\ bestIR # EmptyIR
          /\ cancelReq.evals + 1 < NumGenerations => evals < NumGenerations

\* cancel() came after generation 1; compute() evaluated generation 2 and
\* returned its best impulse response.
C10_Witness ==
    /\ worker = "returned"
    /\ cancelReq.at = "mid"
    /\ cancelReq.evals = 1
    /\ evals = 2
    /\ bestIR # EmptyIR

\* C11: within one compute() call, every best fitness handed to the progress
\* callback is less than or equal to the one handed to it before; in
\* particular the one of generation k + 1 is at most the one of generation k.
C11_BestFitnessNeverRises ==
    \A i \in 1..(Len(reports) - 1) : reports[i + 1].best <= reports[i].best

\* A run of the largest population went through all generations, improved
\* from the worst level after the first generation, and bred a child worse
\* than the best individual.
C11_Witness ==
    /\ opt = "returned"
    /\ m_popSize = MaxPopSize
    /\ Len(reports) = NumGenerations + 2
    /\ reports[2].best = MaxFitness
    /\ reports[Len(reports)].best < MaxFitness
    /\ m_population[m_popSize].fitness > m_population[1].fitness

\* C20: compute() on an optimizer whose population size is <= 0 returns at
\* once with the empty vector: no generation is evaluated, the callback is
\* not called, the population is not touched.
C20_InvalidPopulationReturnsEmpty ==
    [][(opt = "constructed" /\ opt' # "constructed" /\ m_popSize <= 0) =>
          /\ opt' = "returned"
          /\ optResult' = EmptyIR
          /\ optEvals' = 0
          /\ reports' = << >>
          /\ UNCHANGED m_population]_vars

\* compute() has returned from an optimizer of population size 0 that has a
\* progress callback registered.
C20_Witness ==
    /\ opt = "returned"
    /\ m_popSize = 0
    /\ m_onProgress
    /\ optResult = EmptyIR
    /\ reports = << >>
    /\ optEvals = 0

\* C14: whenever m_isGenerating is set, it is cleared later on.
C14_RunEnds == m_isGenerating ~> ~m_isGenerating

\* A run that nobody cancelled or joined went through all generations and
\* its worker cleared the flag.
C14_Witness ==
    /\ worker = "exiting"
    /\ ~m_isGenerating
    /\ outcome = "exhausted"
    /\ ctl = "idle"
    /\ ~m_cancel

InSetIR == worker \in {"initL", "initR", "ready", "unlock"}
InCompute == worker \in {"begin", "eval", "check", "next", "final"}
ComputeSucceeded == outcome \in {"converged", "cancelled", "exhausted"}

\* C12: a worker is spawned only by startGenerate() past its join, at a
\* moment when the previous thread function has returned (or there was no
\* previous worker): never while a worker is still running.
C12_OneWorkerAtATime ==
    [][(worker' = "start" /\ worker # "start") =>
          /\ ctl = "start_join"
          /\ worker \in {"none", "exited"}
          /\ ~m_isGenerating]_vars

\* A second run was spawned after the worker of a run that went through all
\* generations and published had exited without having been joined.
C12_Witness ==
    /\ worker = "start"
    /\ outcome = "exhausted"
    /\ m_isIRReady
    /\ m_isGenerating
    /\ ctl = "idle"

\* C13: when release() returns there is no worker, m_isGenerating is false,
\* m_isIRReady is false and both convolvers are reset; and m_isIRReady only
\* ever becomes true by the setIR of a worker, hence of a run spawned later.
C13_ReleaseLeavesNotReady ==
    [][/\ (ctl = "release_unlock" /\ ctl' = "idle") =>
             /\ worker' = "none"
             /\ ~m_isGenerating'
             /\ ~m_isIRReady'
             /\ m_convolverL' = ConvReset
             /\ m_convolverR' = ConvReset
       /\ (~m_isIRReady /\ m_isIRReady') =>
             (worker = "ready" /\ mutexWriter = "worker")]_vars

\* release() is about to return, having cancelled and joined a run, while
\* the audio thread, which had read m_isIRReady as true, waits for the lock.
C13_Witness ==
    /\ ctl = "release_unlock"
    /\ m_cancel
    /\ worker = "none"
    /\ ~m_isGenerating
    /\ ~m_isIRReady
    /\ audio = "lock"

\* C15: whenever m_progress reads 1.0, the setIR call of the run has
\* returned.
C15_FullProgressAfterSetIR ==
    m_progress = NumGenerations =>
        worker \in {"progress", "clear", "exiting", "exited"}

\* C16: once compute() has left its loop on the cancellation test, m_progress
\* stays at the fraction of the last generation evaluated, as long as the
\* worker lives.
C16_CancelledProgressKept ==
    (outcome = "cancelled" /\ (worker = "final" \/ worker = "returned"
                                \/ InSetIR \/ worker = "progress"
                                \/ worker = "clear")) =>
        m_progress = evals

\* C17: a startGenerate() call made while m_isGenerating is set takes the
\* early return, and only such a call does; from the call to its return it
\* changes neither the worker, m_progress, m_cancel, m_params, m_isGenerating
\* nor the convolution state.
C17_StartWhileGeneratingIsNoOp ==
    [][/\ (ctl = "idle" /\ ctl' \in {"start_return", "start_join"}) =>
             (ctl' = "start_return" <=> m_isGenerating)
       /\ (ctl' # ctl /\ (ctl = "start_return" \/ ctl' = "start_return")) =>
             UNCHANGED <<workerVars, m_progress, gaVars, m_params,
                         m_isGenerating, convVars, mutexVars>>]_vars

\* startGenerate() is at its early return while the run in flight stands
\* between two generations and an earlier run's impulse response is loaded.
C17_Witness ==
    /\ ctl = "start_return"
    /\ worker = "check"
    /\ m_isGenerating
    /\ m_progress > 0
    /\ m_isIRReady

\* A step that resets both convolvers and clears the flag, by prepare() or
\* release().
ResetByControl ==
    /\ ctl \in {"prepare_reset", "release_reset"}
    /\ m_convolverL' = ConvReset
    /\ m_convolverR' = ConvReset
    /\ ~m_isIRReady'

C19_EmptyResultKeepsState ==
    [][/\ InCompute => UNCHANGED convVars
       /\ (outcome = "empty" /\ worker \in {"returned", "clear", "exiting"}) =>
             /\ UNCHANGED convVars
             /\ worker' \in {"returned", "clear", "exiting", "exited"}]_vars

\* The worker of a run whose compute() came back empty is leaving, and the
\* impulse response of an earlier run is still loaded and ready.
C19_Witness ==
    /\ worker = "exiting"
    /\ outcome = "empty"
    /\ bestIR = EmptyIR
    /\ m_isIRReady
    /\ m_convolverL.st = "ok"
    /\ m_convolverR = m_convolverL

\* C21: progress() is a fraction of the run: whatever prepare, startGenerate,
\* cancelIR, release and the reports of the optimizer did, m_progress lies
\* between 0 and 1 (between 0 and NumGenerations out of NumGenerations).
C21_ProgressWithinUnitRange ==
    /\ m_progress >= 0
    /\ m_progress <= NumGenerations

\* A run that has reported its last generation, its progress at 1.
C21_Witness ==
    /\ worker = "check"
    /\ evals = NumGenerations
    /\ m_progress = NumGenerations

InRange(x, lo, hi) == x # NaN /\ lo <= x /\ x <= hi

\* C22: the numeric setters clamp whatever value they are called with: dry
\* and wet stay in [0, 1], volume in [0, 2], the target T60 in [0.05, 10] and
\* the target C80 in [-40, 40]; each such call returns FMOD_OK, and the
\* controller is handed the clamped T60 and C80.
C22_SettersClampEveryValue ==
    /\ InRange(dry, 0, 1000)
    /\ InRange(wet, 0, 1000)
    /\ InRange(volume, 0, 2000)
    /\ InRange(params.t60, 50, 10000)
    /\ InRange(params.c80, -40000, 40000)
    /\ plugIndex \in {"DRY", "WET", "VOLUME", "T60", "C80"} => result = "FMOD_OK"
    /\ plugIndex \in {"T60", "C80"} =>
          /\ sentParams = params
          /\ m_params = params.t60

NeverReaches(edc, db) == \A i \in DOMAIN edc : edc[i] > db
\* The samples before the first one at or below db.
LeadAbove(edc, db) ==
    Cardinality({i \in DOMAIN edc : \A j \in 1..i : edc[j] > db})

\* C23 as stated: calculateT60 returns 0 for every curve that never reaches
\* -35 dB and calculateEDT returns 0 for every curve that never reaches
\* -10 dB, whether or not the curve reaches -5 dB (0 dB) before its last
\* sample.
C23_ZeroWhenLowerNeverReached ==
    /\ (called = "calculateT60" /\ NeverReaches(edc_dB, -35)) => returned = 0
    /\ (called = "calculateEDT" /\ NeverReaches(edc_dB, -10)) => returned = 0

\* C23 as the code has it: for a curve that never reaches the lower level
\* the last sample stands in for it.  The result is 0 only if the upper
\* level is not reached before the last sample; otherwise it is the time
\* from the first sample at or below the upper level to the last sample,
\* times 2 (T60) or 6 (EDT).
C23_MeasuresToLastSample ==
    /\ (called = "calculateT60" /\ NeverReaches(edc_dB, -35)) =>
          returned = IF LeadAbove(edc_dB, -5) < Len(edc_dB) - 1
                     THEN 2 * (Len(edc_dB) - 1 - LeadAbove(edc_dB, -5))
                     ELSE 0
    /\ (called = "calculateEDT" /\ NeverReaches(edc_dB, -10)) =>
          returned = IF LeadAbove(edc_dB, 0) < Len(edc_dB) - 1
                     THEN 6 * (Len(edc_dB) - 1 - LeadAbove(edc_dB, 0))
                     ELSE 0

\* calculateT60 has returned a time for a curve that passes -5 dB before
\* its last sample and ends above -35 dB.
C23_Witness ==
    /\ called = "calculateT60"
    /\ NeverReaches(edc_dB, -35)
    /\ \E i \in 1..(Len(edc_dB) - 1) : edc_dB[i] <= -5
    /\ returned > 0

Smaller(a, b) == IF a <= b THEN a ELSE b
Larger(a, b) == IF a >= b THEN a ELSE b
\* createNextGeneration() has run in the current compute().
NextGenerationMade == m_popSize >= 1 /\ optGen >= 1

\* C24 as stated: the elite count is 20 % of the population size rounded to
\* the nearest integer, at least 1 and at most the population size.
C24_EliteCountIsRounded ==
    NextGenerationMade =>
        eliteCount = Smaller(m_popSize,
                             Larger(1, (2 * m_popSize + 5) \div 10))

\* C24 as the code has it: the elite count is 20 % of the population size
\* rounded down, at least 1 and at most the population size.
C24_EliteCountIsTruncated ==
    NextGenerationMade =>
        eliteCount = Smaller(m_popSize, Larger(1, m_popSize \div 5))

\* A population of 8 (20 % is 1.6) whose next generation was made with one
\* elite.
C24_Witness ==
    /\ NextGenerationMade
    /\ m_popSize = 8
    /\ eliteCount = 1

\* C25: a compute() on a population of one or more individuals evaluates at
\* most NumGenerations generations and leaves its loop in exactly one way:
\* converged (best fitness below the threshold right after the sort, the
\* population left as sorted), cancelled (not converged, the cancel flag set
\* at the test) or exhausted (NumGenerations generations evaluated, neither
\* of the two at the last test); the next compute() starts with a population
\* of fresh, unevaluated individuals.
C25_ComputeEndsOneWay ==
    [][/\ optEvals' <= NumGenerations
       /\ (opt = "check" /\ opt' # "check") =>
             /\ m_population[1].fitness = 0 =>
                   /\ opt' = "final"
                   /\ optOutcome' = "converged"
                   /\ m_population' = m_population
             /\ (m_population[1].fitness # 0 /\ m_cancel) =>
                   /\ opt' = "final"
                   /\ optOutcome' = "cancelled"
             /\ (m_population[1].fitness # 0 /\ ~m_cancel) => opt' = "next"
       /\ (opt = "next" /\ opt' = "eval") => optEvals < NumGenerations
       /\ (opt = "next" /\ opt' = "final") =>
             /\ optEvals = NumGenerations
             /\ optOutcome' = "exhausted"
       /\ (opt = "final" /\ m_popSize > 0) =>
             /\ opt' = "returned"
             /\ optOutcome' \in {"converged", "cancelled", "exhausted"}
             /\ optOutcome' = optOutcome
       /\ (opt = "returned" /\ opt' = "eval") =>
             /\ optEvals' = 0
             /\ optOutcome' = "none"
             /\ Len(m_population') = m_popSize
             /\ \A i \in DOMAIN m_population' :
                   m_population'[i].fitness = Unevaluated]_vars

\* A compute() has evaluated all its generations and returned; the cancel
\* request that came after its last test did not change how it ended.
C25_Witness ==
    /\ opt = "returned"
    /\ m_popSize > 0
    /\ optOutcome = "exhausted"
    /\ optEvals = NumGenerations
    /\ optResult # EmptyIR
    /\ m_cancel

\* compute() is inside its generation loop, or past it and about to return.
InRun == opt \in {"eval", "check", "next", "final"}

\* C26: at every generation boundary of a run the population has m_popSize
\* individuals, and the impulse response of each of them -- elite copy or
\* crossover child -- has the length initializePopulation() fixed for the
\* run.
C26_PopulationShapeKept ==
    InRun =>
        /\ Len(m_population) = m_popSize
        /\ \A i \in DOMAIN m_population :
              m_population[i].len = IRLength(m_params)

\* A generation of ten made from two elite individuals, both of them drawn
\* as parents, its children not yet evaluated.
C26_Witness ==
    /\ opt = "eval"
    /\ optGen >= 1
    /\ m_popSize = 10
    /\ eliteCount = 2
    /\ parents = {0, 1}
    /\ m_population[10].fitness = Unevaluated
    /\ m_population[10].len = IRLength(m_params)

\* C27: what is ranked, reported as best and selected has been evaluated in
\* the generation at hand.  After the evaluation and the sort, where the
\* report is made and the elite and the parents are taken, every fitness is
\* the one of the individual's impulse response and none is the initial
\* 1e10; no report of a generation carries 1e10; the elite and the parents
\* of a new generation are evaluated individuals.
C27_SelectionSeesEvaluatedFitness ==
    /\ opt \in {"check", "next"} =>
          \A i \in DOMAIN m_population :
             /\ m_population[i].fitness = FitnessOf(m_population[i].ir)
             /\ m_population[i].fitness # Unevaluated
    /\ \A k \in DOMAIN reports :
          reports[k].cur >= 1 => reports[k].best # Unevaluated
    /\ (InRun /\ NextGenerationMade) =>
          /\ \A i \in 1..eliteCount :
                m_population[i].fitness # Unevaluated
          /\ \A a \in parents :
                m_population[a + 1].fitness # Unevaluated

\* The second generation has been evaluated and sorted, and a child of the
\* first one is reported as the new best.
C27_Witness ==
    /\ opt = "next"
    /\ optGen = 1
    /\ m_popSize = 10
    /\ Len(reports) = 3
    /\ reports[3].best < reports[2].best

\* C28: compute() returns the impulse response of a best individual of the
\* population it evaluated and sorted last, however it left the loop.  The
\* first individual after a sort has the least fitness of all, and the
\* vector returned is the impulse response of that individual.
C28_ReturnsBestOfLastSorted ==
    /\ opt \in {"check", "next"} =>
          /\ optBest = m_population[1]
          /\ \A i \in DOMAIN m_population :
                optBest.fitness <= m_population[i].fitness
    /\ (/\ opt = "returned"
        /\ m_popSize > 0
        /\ optOutcome \in {"converged", "cancelled", "exhausted"}) =>
          /\ optResult # EmptyIR
          /\ optResult = optBest.ir

\* compute() has returned after its last generation: the population is the
\* one made after the last sort, its children never evaluated, and the
\* vector returned is the best of the sorted one.
C28_Witness ==
    /\ opt = "returned"
    /\ m_popSize = 10
    /\ optOutcome = "exhausted"
    /\ m_population[m_popSize].fitness = Unevaluated
    /\ optBest.fitness > 0
    /\ optResult = optBest.ir

\* C29: createNextGeneration() copies the elite unchanged: the first
\* eliteCount individuals of the new population are, impulse response and
\* fitness, the first eliteCount individuals of the sorted one.
C29_EliteCopiedUnchanged ==
    [][(opt = "next" /\ opt' \in {"eval", "final"}) =>
          /\ eliteCount' >= 1
          /\ \A i \in 1..eliteCount' :
                /\ m_population'[i].ir = m_population[i].ir
                /\ m_population'[i].fitness = m_population[i].fitness
                /\ m_population'[i] = m_population[i]]_vars

\* A new generation of ten: its two elite individuals carry the fitness
\* they were sorted by, the third individual is a child.
C29_Witness ==
    /\ opt = "eval"
    /\ optGen >= 1
    /\ m_popSize = 10
    /\ eliteCount = 2
    /\ m_population[1].fitness # Unevaluated
    /\ m_population[2].fitness # Unevaluated
    /\ m_population[2].fitness > m_population[1].fitness
    /\ m_population[3].fitness = Unevaluated

\* C30: the parents of the children of a new generation come from the
\* elite only.  Whatever the population size, the indices distElite can hand
\* out are 0 .. eliteCount - 1 with eliteCount at least 1, no parent index
\* lies outside them, and a generation with a child in it has drawn one.
C30_ParentsFromEliteOnly ==
    (InRun /\ NextGenerationMade) =>
        /\ eliteCount >= 1
        /\ eliteCount <= m_popSize
        /\ \A a \in parents : 0 <= a /\ a <= eliteCount - 1
        /\ m_popSize > eliteCount => parents # {}

\* A population of two, where 20 % rounds down to no elite at all: the new
\* generation has one elite individual, and it is both parents of the child.
C30_Witness ==
    /\ opt = "eval"
    /\ optGen >= 1
    /\ m_popSize = 2
    /\ eliteCount = 1
    /\ parents = {0}
    /\ m_population[2].fitness = Unevaluated

Distance(a, b) == IF a >= b THEN a - b ELSE b - a

\* C31: crossover followed by mutation gives a child as long as the longer
\* parent, with the sentinel fitness; every sample was read from a parent
\* that has that sample and lies within 0.1 of it, and past the end of the
\* shorter parent it is the longer parent's sample that was read.
C31_ChildNearItsParents ==
    xo = "mutated" =>
        /\ Len(child.ir) = IF Len(parent1) >= Len(parent2)
                           THEN Len(parent1) ELSE Len(parent2)
        /\ child.fitness = Unevaluated
        /\ Len(picked) = Len(child.ir)
        /\ \A i \in DOMAIN child.ir :
             /\ picked[i] \in {"parent1", "parent2"}
             /\ picked[i] = "parent1" =>
                  /\ i <= Len(parent1)
                  /\ Distance(child.ir[i], parent1[i]) <= 100
             /\ picked[i] = "parent2" =>
                  /\ i <= Len(parent2)
                  /\ Distance(child.ir[i], parent2[i]) <= 100
             /\ i > Len(parent1) => picked[i] = "parent2"
             /\ i > Len(parent2) => picked[i] = "parent1"

\* A short first parent and a longer second one that differ at sample 1: the
\* child took sample 1 from the first, its last sample from beyond the first
\* parent's end, and mutation moved both.
C31_Witness ==
    /\ xo = "mutated"
    /\ Len(parent1) = 1
    /\ Len(parent2) = 2
    /\ parent1[1] # parent2[1]
    /\ picked[1] = "parent1"
    /\ child.ir[1] = parent1[1] - 100
    /\ child.ir[2] = parent2[2] + 99

\* C32: within a run the generation indices of successive progress reports
\* never decrease and never exceed the total; a run that ended converged,
\* cancelled or exhausted with a callback registered has a last report whose
\* index is the total; and a run with no callback has no report at all.
C32_ReportsAdvanceToTheTotal ==
    /\ \A i \in 1 .. (Len(reports) - 1) : reports[i].cur <= reports[i + 1].cur
    /\ \A i \in DOMAIN reports :
         0 <= reports[i].cur /\ reports[i].cur <= NumGenerations
    /\ (/\ opt = "returned"
        /\ optOutcome \in {"converged", "cancelled", "exhausted"}
        /\ m_onProgress) =>
           /\ reports # << >>
           /\ reports[Len(reports)].cur = NumGenerations
    /\ ((InRun \/ opt = "returned") /\ ~m_onProgress) => reports = << >>

\* A run cancelled in its first generation: the reports are the initial one,
\* the first generation's, and the final one that jumps to the total.
C32_Witness ==
    /\ opt = "returned"
    /\ optOutcome = "cancelled"
    /\ m_onProgress
    /\ Len(reports) = 3
    /\ reports[1].cur = 0
    /\ reports[2].cur = 1
    /\ reports[3].cur = NumGenerations

\* C33 as the spec has it: the length is the product 1.5 * T60 * sampleRate
\* rounded to the nearest integer, raised to 1024.
C33_LengthIsRounded ==
    irLength # 0 =>
        LET l == (3 * ClampedT60(initT60) * (m_sampleRate \div 100)
                      + 10 * UnitsPerMs) \div (20 * UnitsPerMs)
        IN  irLength = IF l < MinIRLength THEN MinIRLength ELSE l

\* C33: the impulse-response length initializePopulation gives is the
\* product 1.5 * T60 * sampleRate of the clamped T60 with its fraction
\* dropped, raised to 1024, for every target T60 and sample rate.
C33_LengthIsTruncated ==
    irLength # 0 =>
        /\ irLength >= MinIRLength
        /\ \/ irLength = MinIRLength
           \/ /\ 20 * UnitsPerMs * irLength
                     <= 3 * ClampedT60(initT60) * (m_sampleRate \div 100)
              /\ 3 * ClampedT60(initT60) * (m_sampleRate \div 100)
                     < 20 * UnitsPerMs * (irLength + 1)
        /\ irLength = MinIRLength =>
              3 * ClampedT60(initT60) * (m_sampleRate \div 100)
                  < 20 * UnitsPerMs * (MinIRLength + 1)

\* A target of 127 / 8192 s at 44100 Hz: the product is 1025.52, and the
\* length is 1025.
C33_Witness ==
    /\ initT60 = 125 * 127
    /\ m_sampleRate = SampleRate
    /\ irLength = 1025

\* C34: a target T60 below 0.001 s, zero and negative ones included, is
\* replaced by 0.001 s both for the length and for the decay envelope, and
\* the envelope never divides by a T60 that is zero or negative.
C34_SmallT60BecomesMinimum ==
    irLength # 0 =>
        /\ envelopeT60 > 0
        /\ initT60 < MinT60 =>
              /\ envelopeT60 = MinT60
              /\ irLength = MinIRLength

\* C35 as the spec has it: the sort is ascending by fitness and stable, so
\* individuals of equal fitness keep their order and the first individual
\* after the sort is the lowest-indexed one of minimal fitness.
C35_SortIsStable ==
    sortOut # << >> =>
        /\ \A i \in 1 .. (Len(sortOut) - 1) :
              sortOut[i].fitness <= sortOut[i + 1].fitness
        /\ \A i, j \in DOMAIN sortOut :
              (i < j /\ sortOut[i].fitness = sortOut[j].fitness) =>
                 sortOut[i].index < sortOut[j].index

\* C35: the per-generation sort rearranges the population into ascending
\* order of fitness, so the first individual after the sort has the minimal
\* fitness; which of several individuals of equal fitness comes first is
\* not determined.
C35_SortIsAscending ==
    sortOut # << >> =>
        /\ Len(sortOut) = Len(sortIn)
        /\ \A k \in DOMAIN sortIn :
              \E i \in DOMAIN sortOut : sortOut[i].index = k - 1
        /\ \A i \in DOMAIN sortOut :
              sortOut[i].fitness = sortIn[sortOut[i].index + 1]
        /\ \A i \in 1 .. (Len(sortOut) - 1) :
              sortOut[i].fitness <= sortOut[i + 1].fitness
        /\ \A k \in DOMAIN sortIn : sortOut[1].fitness <= sortIn[k]

\* Three individuals, the last two of the same minimal fitness: after the
\* sort the one that was last comes first.
C35_Witness ==
    /\ sortIn = <<2, 1, 1>>
    /\ Len(sortOut) = 3
    /\ sortOut[1].index = 2
    /\ sortOut[2].index = 1
    /\ sortOut[3].index = 0

\* The ways a thread waits: the control thread in a join for a worker that
\* has not exited or for the exclusive lock, the worker in setIR for the
\* exclusive lock, the audio thread in process() for the shared lock.
LockFree == mutexWriter = "none" /\ mutexReaders = 0

CtlWaitsJoin ==
    /\ ctl \in {"prepare_join", "release_join", "cancel_join", "start_join"}
    /\ ~JoinReturns

CtlWaitsLock == ctl \in {"prepare_lock", "release_lock"} /\ ~LockFree

WorkerWaitsLock ==
    worker = "returned" /\ PublishesResult(bestIR) /\ ~LockFree

AudioWaitsLock == audio = "lock" /\ mutexWriter # "none"

CtlCanStep == ENABLED ControlStep

WorkerCanStep == ENABLED (WorkerStep \/ WComputeEmpty)

AudioCanStep == ENABLED AudioStep

\* C36: the three threads never deadlock.  A thread inside a call can take
\* a step, or it waits for a thread that can: a joining control call holds
\* no lock and waits for a worker that runs or that waits for the lock the
\* audio thread holds and is about to release; whoever waits for the
\* convolution lock waits for a holder that can step.
C36_NoThreadWaitsOnAWaiter ==
    /\ CtlWaitsJoin => mutexWriter # "ctl"
    /\ ctl # "idle" =>
          \/ CtlCanStep
          \/ /\ CtlWaitsJoin
             /\ \/ WorkerCanStep
                \/ WorkerWaitsLock /\ mutexReaders > 0 /\ AudioCanStep
          \/ /\ CtlWaitsLock
             /\ \/ mutexWriter = "worker" /\ WorkerCanStep
                \/ mutexReaders > 0 /\ AudioCanStep
    /\ worker \notin {"none", "exited"} =>
          \/ WorkerCanStep
          \/ /\ WorkerWaitsLock
             /\ \/ mutexWriter = "ctl" /\ CtlCanStep /\ ctl # "idle"
                \/ mutexReaders > 0 /\ AudioCanStep
    /\ audio # "idle" =>
          \/ AudioCanStep
          \/ /\ AudioWaitsLock
             /\ \/ mutexWriter = "ctl" /\ CtlCanStep /\ ctl # "idle"
                \/ mutexWriter = "worker" /\ WorkerCanStep

\* cancelIR() waits in its join for a worker that waits in setIR for the
\* lock, which the audio thread holds shared inside process().
C36_Witness ==
    /\ ctl = "cancel_join"
    /\ WorkerWaitsLock
    /\ mutexReaders > 0
    /\ audio = "convR"

\* prepare() replaces the optimizer, the sample rate and the block size in
\* the step that follows its join.
ReplacesOptimizer == ctl = "prepare_join" /\ ctl' = "prepare_lock"

\* C37: the optimizer, the sample rate and the block size are replaced only
\* when no worker is running: the step of prepare() that makes the new
\* GeneticAlgorithm and writes m_maxBlockSize is taken with the previous
\* worker joined, and no other step changes the block size.
C37_ReplacedOnlyAfterJoin ==
    [][/\ ReplacesOptimizer => (worker \in {"none", "exited"}
                                 /\ worker' = "none")
       /\ m_maxBlockSize' # m_maxBlockSize => ReplacesOptimizer]_vars

\* prepare() called during a run has cancelled the worker and is in its
\* join; the worker has left compute because of it and has exited, and the
\* optimizer and the block size are still the ones the worker ran with.
C37_Witness ==
    /\ ctl = "prepare_join"
    /\ worker = "exited"
    /\ outcome = "cancelled"
    /\ m_cancel
    /\ m_maxBlockSize = DefaultBlockSize

\* The worker is somewhere between the start of its thread function and the
\* end of setIR.
WorkerBusy ==
    worker \in {"start", "begin", "eval", "check", "next", "final", "returned",
                "initL", "initR", "ready", "unlock"}

\* C38: isGenerating() covers all worker activity.  Whenever the worker is
\* in compute or in setIR the flag is set, and a step of the worker taken
\* with the flag clear changes neither the convolution state nor progress.
C38_FlagCoversWorker ==
    [][/\ WorkerBusy => m_isGenerating
       /\ WorkerBusy' => m_isGenerating'
       /\ (~m_isGenerating /\ worker' # worker /\ ctl' = ctl) =>
             UNCHANGED <<convVars, m_progress>>]_vars

\* cancelIR() was called while the worker was in setIR: the call is in its
\* join, the worker is initialising the second convolver, the flag is set.
C38_Witness ==
    /\ ctl = "cancel_join"
    /\ worker = "initR"
    /\ cancelReq.at = "late"
    /\ m_isGenerating

\* The worker leaves the generation loop because it read m_cancel set.
StoppedByCancel ==
    worker = "check" /\ worker' = "final" /\ outcome' = "cancelled"

\* C39: a cancellation request never leaks into a later run.  A worker
\* leaves the loop on the cancellation flag only while the call that
\* requested it, made after this worker was spawned, is still waiting in its
\* join; and cancelIR() called with no run in progress returns with the
\* flag and progress as they were.
C39_CancelStaysWithItsRun ==
    [][/\ StoppedByCancel =>
             /\ cancelReq.at # "none"
             /\ ctl \in {"prepare_join", "release_join", "cancel_join"}
       /\ (ctl = "idle" /\ ctl' = "cancel_return") =>
             /\ ~m_isGenerating
             /\ worker \notin {"start", "begin", "eval", "check", "next",
                               "final", "returned", "initL", "initR",
                               "ready", "unlock", "progress", "clear"}
             /\ UNCHANGED <<m_cancel, m_progress>>
       /\ ctl = "cancel_return" => UNCHANGED <<m_cancel, m_progress>>]_vars

\* A run has just been spawned while the flag an earlier cancelIR() set is
\* still standing, and nobody is asking for cancellation now.
C39_Witness ==
    /\ worker = "start"
    /\ m_cancel
    /\ cancelReq.at = "none"
    /\ ctl = "idle"
    /\ m_isGenerating

====
